---- MODULE Spec2Model ----
(***************************************************************************)
(* Model of parsers/IE.py: the three EirGrid smart-grid-dashboard fetchers *)
(* fetch_production, fetch_price and fetch_exchange.  Each call is a fixed *)
(* sequence of HTTP GETs; the provider's responses are the inputs.         *)
(*                                                                         *)
(* Encodings.  A JSON value is <<>> for null and <<n>> for the number n.   *)
(* A provider timestamp '%d-%b-%Y %H:%M:%S' is the tuple of its fields     *)
(* <<day, month-abbreviation, year, hour, minute, second>>.  A country     *)
(* code is the tuple of its characters' code points.  MW figures derived   *)
(* from a percentage are kept exactly, in hundredths of a MW.              *)
(***************************************************************************)
EXTENDS Integers, Sequences, FiniteSets, TLC

VARIABLES pc, op, country_code1, country_code2, region, requests,
          obj, datetime_iso, total_generation, latest, retained,
          result, error

vars == <<pc, op, country_code1, country_code2, region, requests,
          obj, datetime_iso, total_generation, latest, retained,
          result, error>>

\* Longest Rows array of a provider response.
MaxRows == 2

\* ------------------------------------------------------------------ values
JNull == <<>>

JNum(n) == <<n>>

\* Python truthiness of a JSON value: None and 0 are falsy.
Truthy(v) == v # JNull /\ v[1] # 0

Has(o, k) == k \in DOMAIN o

SeqsUpTo(S, n) == UNION {[1..k -> S] : k \in 0..n}

\* [... for row in Rows if cond] keeps response order: the positions of the
\* rows whose condition (flags[i]) holds.
Where(flags) == SelectSeq([i \in 1..Len(flags) |-> i], LAMBDA i : flags[i])

\* ------------------------------------------------------------ country codes
GB == <<71, 66>>

IE == <<73, 69>>

FR == <<70, 82>>

CountryCodes == {GB, IE, FR}

ARROW == <<45, 62>>

\* Python's str comparison: code point by code point, a proper prefix first.
RECURSIVE StrLess(_, _)
StrLess(a, b) ==
    IF b = <<>> THEN FALSE
    ELSE IF a = <<>> THEN TRUE
    ELSE IF a[1] # b[1] THEN a[1] < b[1]
    ELSE StrLess(Tail(a), Tail(b))

\* sorted([a, b]): stable, so the pair is swapped only when b < a.
sorted(a, b) == IF StrLess(b, a) THEN <<b, a>> ELSE <<a, b>>

join(sep, l) == l[1] \o sep \o l[2]

\* ---------------------------------------------------------------- datetimes
MONTHS == [Jan |-> 1, Feb |-> 2, Mar |-> 3, Apr |-> 4, May |-> 5, Jun |-> 6,
           Jul |-> 7, Aug |-> 8, Sep |-> 9, Oct |-> 10, Nov |-> 11, Dec |-> 12]

IsLeap(y) == (y % 4 = 0 /\ y % 100 # 0) \/ y % 400 = 0

DaysIn(m, y) ==
    IF m = 2 THEN (IF IsLeap(y) THEN 29 ELSE 28)
    ELSE IF m \in {4, 6, 9, 11} THEN 30 ELSE 31

\* datetime.strptime(s, DATE_FORMAT): <<>> stands for ValueError.
strptime(s) ==
    IF /\ s[2] \in DOMAIN MONTHS
       /\ s[1] \in 1..DaysIn(MONTHS[s[2]], s[3])
       /\ s[4] \in 0..23 /\ s[5] \in 0..59 /\ s[6] \in 0..61
    THEN <<[year |-> s[3], month |-> MONTHS[s[2]], day |-> s[1],
            hour |-> s[4], minute |-> s[5], second |-> s[6]]>>
    ELSE <<>>

\* datetime.isoformat(): the fields of 'YYYY-MM-DDTHH:MM:SS', in that order.
isoformat(d) == <<d.year, d.month, d.day, d.hour, d.minute, d.second>>

\* arrow.get(iso).datetime: a naive ISO string is read as UTC.
arrow_get(iso) ==
    [year |-> iso[1], month |-> iso[2], day |-> iso[3],
     hour |-> iso[4], minute |-> iso[5], second |-> iso[6], tzinfo |-> "UTC"]

T0000 == <<1, "Jan", 2017, 0, 0, 0>>

T0015 == <<1, "Jan", 2017, 0, 15, 0>>

TBad == <<31, "Feb", 2017, 0, 0, 0>>

Times == {T0000, T0015, TBad}

\* ----------------------------------------------------------------- requests
SOURCE == "smartgriddashboard.eirgrid.com"

NoTimeout == <<>>

\* Variant: the island-wide region is never requested.
region_of_always_ROI(country_code) == "ROI"

region_of(country_code) == IF country_code = IE THEN "ROI" ELSE "All"

Request(path, area, reg, timeout) ==
    [path |-> path, area |-> area, region |-> reg, timeout |-> timeout]

NetworkError == [status |-> "error"]

InvalidJSON == [status |-> "invalid_json"]

Ok(o) == [status |-> "ok", json |-> o]

NoObj == [none |-> TRUE]

NoRow == [none |-> TRUE]

TransportFailure(resp) ==
    IF resp.status = "error" THEN "ConnectionError"
    ELSE IF resp.status = "invalid_json" THEN "ValueError"
    ELSE ""

\* --------------------------------------------------------- fetch_production
FUEL_MAP == [FUEL_COAL |-> "coal", FUEL_EWIC |-> "GB->IE", FUEL_GAS |-> "gas",
             FUEL_OTHER_FOSSIL |-> "unknown", FUEL_RENEW |-> "wind"]

GoodTimes == {T0000, T0015}

GenerationValues == {JNull, JNum(200)}

GenerationRows ==
    [EffectiveTime : Times, FieldName : {"GENERATION_ACTUAL"},
     Value : GenerationValues]

GenerationResponses ==
    {NetworkError, InvalidJSON, Ok([LastUpdated |-> T0000]), Ok([Rows |-> <<>>])}
    \cup {Ok([LastUpdated |-> t, Rows |-> rows]) :
              t \in Times, rows \in SeqsUpTo(GenerationRows, MaxRows)}

FuelCodes == {"FUEL_COAL", "FUEL_EWIC", "FUEL_RENEW", "FUEL_OIL"}

FuelValues == {JNull, JNum(-10), JNum(40)}

FuelmixRows ==
    [EffectiveTime : GoodTimes, FieldName : FuelCodes, Value : FuelValues]

FuelmixResponses ==
    {NetworkError, InvalidJSON, Ok([LastUpdated |-> T0000]), Ok([Rows |-> <<>>]),
     Ok([Rows |-> <<[EffectiveTime |-> T0000, FieldName |-> "FUEL_COAL",
                     Value |-> JNum(40)]>>])}
    \cup {Ok([LastUpdated |-> t, Rows |-> rows]) :
              t \in GoodTimes, rows \in SeqsUpTo(FuelmixRows, MaxRows)}

\* Lines 88-93: the datetime and the total generation, or the exception.
generation_data(resp) ==
    IF TransportFailure(resp) # "" THEN [error |-> TransportFailure(resp)]
    ELSE IF ~Has(resp.json, "LastUpdated") THEN [error |-> "KeyError"]
    ELSE IF strptime(resp.json.LastUpdated) = <<>> THEN [error |-> "ValueError"]
    ELSE IF ~Has(resp.json, "Rows") THEN [error |-> "KeyError"]
    ELSE LET o == resp.json
             idx == Where([i \in 1..Len(o.Rows) |-> o.Rows[i].EffectiveTime = o.LastUpdated])
         IN  IF idx = <<>> THEN [error |-> "IndexError"]
             ELSE [error |-> "",
                   datetime |-> isoformat(strptime(o.LastUpdated)[1]),
                   total_generation |-> o.Rows[idx[1]].Value]

\* Variant: no filter on EffectiveTime, every row of the response is used.
fuelmix_retained_all(o) == Where([i \in 1..Len(o.Rows) |-> TRUE])

\* The filter of line 104: the rows at the LastUpdated of the object at hand.
fuelmix_retained(o) ==
    Where([i \in 1..Len(o.Rows) |-> o.Rows[i].EffectiveTime = o.LastUpdated])

\* row['Value']/100*total_generation, kept exactly in hundredths of a MW.
PercentOf(value, total) == value[1] * total[1]

\* Variant: FUEL_MAP.get(code, 'unknown').
fuel_category_default(code) ==
    IF code \in DOMAIN FUEL_MAP THEN <<FUEL_MAP[code]>> ELSE <<"unknown">>

\* FUEL_MAP[code]: <<>> stands for KeyError.
fuel_category(code) ==
    IF code \in DOMAIN FUEL_MAP THEN <<FUEL_MAP[code]>> ELSE <<>>

SetItem(d, k, v) == [x \in DOMAIN d \cup {k} |-> IF x = k THEN v ELSE d[x]]

\* Variant: setdefault, the first row of a category wins.
assign_keep_first(production, source) ==
    IF source[1] # "FUEL_EWIC"
    THEN (IF fuel_category(source[1])[1] \in DOMAIN production THEN production
          ELSE SetItem(production, fuel_category(source[1])[1], source[2]))
    ELSE production

\* Variant: the test on 'FUEL_EWIC' is missing.
assign_with_imports(production, source) ==
    SetItem(production, fuel_category(source[1])[1], source[2])

\* Lines 108-109, one turn of the loop.
assign(production, source) ==
    IF source[1] # "FUEL_EWIC"
    THEN SetItem(production, fuel_category(source[1])[1], source[2])
    ELSE production

\* Lines 106-109.
RECURSIVE production_loop(_, _)
production_loop(calculated_generation, production) ==
    IF calculated_generation = <<>> THEN production
    ELSE production_loop(Tail(calculated_generation),
                         assign(production, Head(calculated_generation)))

\* Lines 99-119: the record, or the exception.
production_data(country_code, iso, total, resp) ==
    IF TransportFailure(resp) # "" THEN [error |-> TransportFailure(resp)]
    ELSE IF ~Has(resp.json, "Rows") THEN [error |-> "KeyError"]
    ELSE IF resp.json.Rows # <<>> /\ ~Has(resp.json, "LastUpdated")
         THEN [error |-> "KeyError"]
    ELSE LET o == resp.json
             idx == IF o.Rows = <<>> THEN <<>> ELSE fuelmix_retained(o)
             calculated_generation ==
                 [n \in 1..Len(idx) |->
                     <<o.Rows[idx[n]].FieldName,
                       PercentOf(o.Rows[idx[n]].Value, total)>>]
         IN  IF \E n \in 1..Len(idx) : o.Rows[idx[n]].Value = JNull \/ total = JNull
             THEN [error |-> "TypeError"]
             ELSE IF \E n \in 1..Len(idx) :
                        /\ o.Rows[idx[n]].FieldName # "FUEL_EWIC"
                        /\ fuel_category(o.Rows[idx[n]].FieldName) = <<>>
             THEN [error |-> "KeyError"]
             ELSE [error |-> "",
                   retained |-> idx,
                   data |-> [countryCode |-> country_code,
                             production |-> production_loop(calculated_generation, <<>>),
                             storage |-> <<>>,
                             source |-> SOURCE,
                             datetime |-> arrow_get(iso)]]

Timeout == 5

fetch_production_call(country_code) ==
    /\ pc = "idle"
    /\ pc' = "production_generationactual"
    /\ op' = "fetch_production"
    /\ country_code1' = country_code
    /\ region' = region_of(country_code)
    /\ requests' = <<Request("data", "generationactual",
                             region_of(country_code), <<Timeout>>)>>
    /\ UNCHANGED <<country_code2, obj, datetime_iso, total_generation, latest,
                   retained, result, error>>

\* Variant: a failed generationactual step is retried once instead of raising.
fetch_production_generationactual_retry ==
    /\ pc = "production_generationactual"
    /\ \E resp \in GenerationResponses :
         LET out == generation_data(resp) IN
         /\ error' = out.error
         /\ IF out.error = ""
            THEN /\ pc' = "production_fuelmix"
                 /\ datetime_iso' = out.datetime
                 /\ total_generation' = out.total_generation
                 /\ requests' = Append(requests,
                        Request("data", "fuelmix", region, <<Timeout>>))
                 /\ UNCHANGED obj
            ELSE IF Len(requests) < 2
            THEN /\ pc' = pc
                 /\ requests' = Append(requests, requests[1])
                 /\ UNCHANGED <<obj, datetime_iso, total_generation>>
            ELSE /\ pc' = "raised"
                 /\ obj' = resp
                 /\ UNCHANGED <<datetime_iso, total_generation, requests>>
    /\ UNCHANGED <<op, country_code1, country_code2, region, latest, retained, result>>

\* The generationactual object is dead once lines 91-93 have read it (obj is
\* rebound at line 100); it is kept only when the call ends here.
fetch_production_generationactual ==
    /\ pc = "production_generationactual"
    /\ \E resp \in GenerationResponses :
         LET out == generation_data(resp) IN
         /\ error' = out.error
         /\ IF out.error = ""
            THEN /\ pc' = "production_fuelmix"
                 /\ datetime_iso' = out.datetime
                 /\ total_generation' = out.total_generation
                 /\ requests' = Append(requests,
                        Request("data", "fuelmix", region, <<Timeout>>))
                 /\ UNCHANGED obj
            ELSE /\ pc' = "raised"
                 /\ obj' = resp
                 /\ UNCHANGED <<datetime_iso, total_generation, requests>>
    /\ UNCHANGED <<op, country_code1, country_code2, region, latest, retained, result>>

fetch_production_fuelmix ==
    /\ pc = "production_fuelmix"
    /\ \E resp \in FuelmixResponses :
         LET out == production_data(country_code1, datetime_iso,
                                    total_generation, resp) IN
         /\ obj' = resp
         /\ error' = out.error
         /\ IF out.error = ""
            THEN /\ pc' = "returned"
                 /\ retained' = out.retained
                 /\ result' = <<out.data>>
            ELSE /\ pc' = "raised"
                 /\ UNCHANGED <<retained, result>>
    /\ UNCHANGED <<op, country_code1, country_code2, region, requests,
                   datetime_iso, total_generation, latest>>

\* -------------------------------------------------------------- fetch_price
MarketPriceStatsRows ==
    [EffectiveTime : Times,
     FieldName : {"LATEST_MARKET_PRICE", "MAX_MARKET_PRICE"},
     Value : {JNum(45)}]

MarketPriceStatsResponses ==
    {NetworkError, InvalidJSON, Ok([LastUpdated |-> T0015])}
    \cup {Ok([LastUpdated |-> T0015, Rows |-> rows]) :
              rows \in SeqsUpTo(MarketPriceStatsRows, MaxRows)}

MarketdataRows == [EffectiveTime : Times, EurPrice : {JNum(30), JNum(45)}]

MarketdataResponses ==
    {NetworkError, InvalidJSON, Ok([LastUpdated |-> T0015])}
    \cup {Ok([LastUpdated |-> T0015, Rows |-> rows]) :
              rows \in SeqsUpTo(MarketdataRows, MaxRows)}

\* Lines 152-154: the latest-market-price row, or the exception.
latest_market_price(resp) ==
    IF TransportFailure(resp) # "" THEN [error |-> TransportFailure(resp)]
    ELSE IF ~Has(resp.json, "Rows") THEN [error |-> "KeyError"]
    ELSE LET rows == resp.json.Rows
             idx == Where([i \in 1..Len(rows) |-> rows[i].FieldName = "LATEST_MARKET_PRICE"])
         IN  IF idx = <<>> THEN [error |-> "IndexError"]
             ELSE [error |-> "", latest |-> rows[idx[1]]]

\* Variant: falls back on the last row when no EffectiveTime matches.
EurPrice_fallback(rows, reference) ==
    LET idx == Where([i \in 1..Len(rows) |-> rows[i].EffectiveTime = reference.EffectiveTime])
    IN  IF idx # <<>> THEN <<rows[idx[1]].EurPrice>>
        ELSE IF rows # <<>> THEN <<rows[Len(rows)].EurPrice>>
        ELSE <<>>

\* Line 164: <<>> stands for IndexError.
EurPrice(rows, reference) ==
    LET idx == Where([i \in 1..Len(rows) |-> rows[i].EffectiveTime = reference.EffectiveTime])
    IN  IF idx = <<>> THEN <<>> ELSE <<rows[idx[1]].EurPrice>>

\* Lines 161-178: the record, or the exception.
price_data(country_code, reference, resp) ==
    IF TransportFailure(resp) # "" THEN [error |-> TransportFailure(resp)]
    ELSE IF ~Has(resp.json, "Rows") THEN [error |-> "KeyError"]
    ELSE IF EurPrice(resp.json.Rows, reference) = <<>> THEN [error |-> "IndexError"]
    ELSE IF strptime(reference.EffectiveTime) = <<>> THEN [error |-> "ValueError"]
    ELSE [error |-> "",
          data |-> [countryCode |-> country_code,
                    currency |-> "EUR",
                    price |-> EurPrice(resp.json.Rows, reference)[1],
                    source |-> SOURCE,
                    datetime |-> arrow_get(isoformat(
                                    strptime(reference.EffectiveTime)[1]))]]

fetch_price_call(country_code) ==
    /\ pc = "idle"
    /\ pc' = "price_MarketPriceStats"
    /\ op' = "fetch_price"
    /\ country_code1' = country_code
    /\ region' = region_of(country_code)
    /\ requests' = <<Request("stats", "MarketPriceStats",
                             region_of(country_code), NoTimeout)>>
    /\ UNCHANGED <<country_code2, obj, datetime_iso, total_generation, latest,
                   retained, result, error>>

\* As in fetch_production, the first object is kept only when the call ends
\* on it; line 162 rebinds obj.
fetch_price_MarketPriceStats ==
    /\ pc = "price_MarketPriceStats"
    /\ \E resp \in MarketPriceStatsResponses :
         LET out == latest_market_price(resp) IN
         /\ error' = out.error
         /\ IF out.error = ""
            THEN /\ pc' = "price_marketdata"
                 /\ latest' = out.latest
                 /\ requests' = Append(requests,
                        Request("marketdata", "marketdata", region, NoTimeout))
                 /\ UNCHANGED obj
            ELSE /\ pc' = "raised"
                 /\ obj' = resp
                 /\ UNCHANGED <<latest, requests>>
    /\ UNCHANGED <<op, country_code1, country_code2, region, datetime_iso,
                   total_generation, retained, result>>

fetch_price_marketdata ==
    /\ pc = "price_marketdata"
    /\ \E resp \in MarketdataResponses :
         LET out == price_data(country_code1, latest, resp) IN
         /\ obj' = resp
         /\ error' = out.error
         /\ IF out.error = ""
            THEN /\ pc' = "returned"
                 /\ result' = <<out.data>>
            ELSE /\ pc' = "raised"
                 /\ UNCHANGED result
    /\ UNCHANGED <<op, country_code1, country_code2, region, requests,
                   datetime_iso, total_generation, latest, retained>>

\* ----------------------------------------------------------- fetch_exchange
FlowValues == {JNull, JNum(0), JNum(10), JNum(-5)}

InterconnectionRows ==
    [EffectiveTime : Times, FieldName : {"INTER_NET"}, Value : FlowValues]

InterconnectionResponses ==
    {NetworkError, InvalidJSON, Ok([LastUpdated |-> T0015])}
    \cup {Ok([LastUpdated |-> T0015, Rows |-> rows]) :
              rows \in SeqsUpTo(InterconnectionRows, MaxRows)}

\* Variant: [0] instead of [-1], the first non-falsy row.
LatestInterconnection_first(rows) ==
    LET idx == Where([i \in 1..Len(rows) |-> Truthy(rows[i].Value)])
    IN  IF idx = <<>> THEN <<>>
        ELSE <<rows[idx[1]].EffectiveTime, rows[idx[1]].Value>>

\* [(row['EffectiveTime'], row['Value']) for row in Rows if row['Value']][-1];
\* <<>> stands for IndexError.
LatestInterconnection(rows) ==
    LET idx == Where([i \in 1..Len(rows) |-> Truthy(rows[i].Value)])
    IN  IF idx = <<>> THEN <<>>
        ELSE <<rows[idx[Len(idx)]].EffectiveTime, rows[idx[Len(idx)]].Value>>

\* Variant: the raw flow is reported whatever the order of the arguments.
NetFlow_unsigned(c1, c2, netFlow) == netFlow

\* netFlow if country_code1 == sorted_country_codes[0] else -1 * netFlow
NetFlow(c1, c2, netFlow) ==
    IF c1 = sorted(c1, c2)[1] THEN netFlow ELSE (-1) * netFlow

\* The body of fetch_exchange after the GET: the record, or the exception.
exchange_data(c1, c2, resp) ==
    IF TransportFailure(resp) # "" THEN [error |-> TransportFailure(resp)]
    ELSE IF ~Has(resp.json, "Rows") THEN [error |-> "KeyError"]
    ELSE LET last == LatestInterconnection(resp.json.Rows) IN
         IF last = <<>> THEN [error |-> "IndexError"]
         ELSE IF strptime(last[1]) = <<>> THEN [error |-> "ValueError"]
         ELSE [error |-> "",
               latest |-> last,
               data |-> [sortedCountryCodes |-> join(ARROW, sorted(c1, c2)),
                         source |-> SOURCE,
                         datetime |-> arrow_get(isoformat(strptime(last[1])[1])),
                         netFlow |-> NetFlow(c1, c2, last[2][1])]]

fetch_exchange_call(c1, c2) ==
    /\ pc = "idle"
    /\ pc' = "exchange_interconnection"
    /\ op' = "fetch_exchange"
    /\ country_code1' = c1
    /\ country_code2' = c2
    /\ region' = region_of(c2)
    /\ requests' = <<Request("data", "interconnection", region_of(c2), NoTimeout)>>
    /\ UNCHANGED <<obj, datetime_iso, total_generation, latest, retained,
                   result, error>>

fetch_exchange_interconnection ==
    /\ pc = "exchange_interconnection"
    /\ \E resp \in InterconnectionResponses :
         LET out == exchange_data(country_code1, country_code2, resp) IN
         /\ obj' = resp
         /\ error' = out.error
         /\ IF out.error = ""
            THEN /\ pc' = "returned"
                 /\ latest' = out.latest
                 /\ result' = <<out.data>>
            ELSE /\ pc' = "raised"
                 /\ UNCHANGED <<latest, result>>
    /\ UNCHANGED <<op, country_code1, country_code2, region, requests,
                   datetime_iso, total_generation, retained>>

\* ---------------------------------------------------------------- __main__
\* The caller goes on to its next call; every call starts from fresh locals.
main_next ==
    /\ pc \in {"returned", "raised"}
    /\ pc' = "idle"
    /\ op' = ""
    /\ country_code1' = <<>>
    /\ country_code2' = <<>>
    /\ region' = ""
    /\ requests' = <<>>
    /\ obj' = NoObj
    /\ datetime_iso' = <<>>
    /\ total_generation' = JNull
    /\ latest' = NoRow
    /\ retained' = <<>>
    /\ result' = <<>>
    /\ error' = ""

Init ==
    /\ pc = "idle"
    /\ op = ""
    /\ country_code1 = <<>>
    /\ country_code2 = <<>>
    /\ region = ""
    /\ requests = <<>>
    /\ obj = NoObj
    /\ datetime_iso = <<>>
    /\ total_generation = JNull
    /\ latest = NoRow
    /\ retained = <<>>
    /\ result = <<>>
    /\ error = ""

Next ==
    \/ \E country_code \in CountryCodes : fetch_production_call(country_code)
    \/ fetch_production_generationactual
    \/ fetch_production_fuelmix
    \/ \E country_code \in CountryCodes : fetch_price_call(country_code)
    \/ fetch_price_MarketPriceStats
    \/ fetch_price_marketdata
    \/ \E c1 \in CountryCodes, c2 \in CountryCodes : fetch_exchange_call(c1, c2)
    \/ fetch_exchange_interconnection
    \/ main_next

Spec == Init /\ [][Next]_vars

\* ================================================================ properties
Returned(f) == pc = "returned" /\ op = f

Ended(f) == pc \in {"returned", "raised"} /\ op = f

Record == result[1]

\* The last response was decoded and carries a Rows array.
HasRows == obj # NoObj /\ obj.status = "ok" /\ Has(obj.json, "Rows")

\* What the two well-formed provider timestamps denote.
Normalized(t) ==
    [year |-> 2017, month |-> 1, day |-> 1, hour |-> 0,
     minute |-> (IF t = T0000 THEN 0 ELSE 15), second |-> 0, tzinfo |-> "UTC"]

\* Alphabetical position of the three codes: FR < GB < IE.
Rank(c) == IF c = FR THEN 1 ELSE IF c = GB THEN 2 ELSE 3

Falsy(v) == v \in {JNull, JNum(0)}

\* C1 as stated: netFlow is the raw flow v when country_code1 is the
\* alphabetically first of the two codes and -v otherwise, and on the same
\* response the swapped call returns the negated netFlow and the same
\* sortedCountryCodes, for every pair of codes.
C1_AsStated ==
    Returned("fetch_exchange") =>
        LET v == latest[2][1]
            swapped == exchange_data(country_code2, country_code1, obj)
        IN  /\ Record.netFlow =
                 (IF Rank(country_code1) <= Rank(country_code2) THEN v ELSE -v)
            /\ swapped.error = ""
            /\ swapped.data.sortedCountryCodes = Record.sortedCountryCodes
            /\ swapped.data.netFlow = -Record.netFlow

\* C1 amended: netFlow is v when country_code1 sorts first and -v otherwise;
\* swapping two DIFFERENT codes negates netFlow and keeps sortedCountryCodes,
\* and with two equal codes both calls return v.
C1_NetFlowSign ==
    Returned("fetch_exchange") =>
        LET v == latest[2][1]
            swapped == exchange_data(country_code2, country_code1, obj)
        IN  /\ Record.netFlow =
                 (IF Rank(country_code1) <= Rank(country_code2) THEN v ELSE -v)
            /\ swapped.error = ""
            /\ swapped.data.sortedCountryCodes = Record.sortedCountryCodes
            /\ country_code1 # country_code2 =>
                   swapped.data.netFlow = -Record.netFlow
            /\ country_code1 = country_code2 =>
                   swapped.data.netFlow = Record.netFlow /\ Record.netFlow = v

\* fetch_exchange('IE', 'GB') on raw flow 10 returned -10 and 'GB->IE'.
C1_Witness ==
    /\ Returned("fetch_exchange")
    /\ country_code1 = IE /\ country_code2 = GB
    /\ latest[2] = JNum(10)
    /\ Record.netFlow = -10
    /\ Record.sortedCountryCodes = <<71, 66, 45, 62, 73, 69>>

\* C8: the reading is the last row, in response order, whose Value is neither
\* 0 nor null: raw flow and datetime both come from that row, and without
\* such a row the call raises and returns no record.
C8_LastNonFalsyRow ==
    (Ended("fetch_exchange") /\ HasRows) =>
        LET rows == obj.json.Rows IN
        IF \A i \in 1..Len(rows) : Falsy(rows[i].Value)
        THEN pc = "raised" /\ result = <<>>
        ELSE LET i == CHOOSE i \in 1..Len(rows) :
                        /\ ~Falsy(rows[i].Value)
                        /\ \A j \in (i + 1)..Len(rows) : Falsy(rows[j].Value)
             IN  IF rows[i].EffectiveTime = TBad
                 THEN pc = "raised" /\ result = <<>>
                 ELSE /\ pc = "returned"
                      /\ latest = <<rows[i].EffectiveTime, rows[i].Value>>
                      /\ Record.datetime = Normalized(rows[i].EffectiveTime)
                      /\ Record.netFlow \in {rows[i].Value[1], -rows[i].Value[1]}

\* The most recent row of the response is falsy and an earlier row was taken.
C8_Witness ==
    /\ Returned("fetch_exchange")
    /\ Len(obj.json.Rows) = 2
    /\ Falsy(obj.json.Rows[2].Value)
    /\ obj.json.Rows[2].EffectiveTime # obj.json.Rows[1].EffectiveTime
    /\ latest = <<obj.json.Rows[1].EffectiveTime, obj.json.Rows[1].Value>>

\* ------------------------------------------------- fetch_production claims
\* The fuelmix object of a call that reached its second response.
Mix == obj.json

FuelmixEnded ==
    Ended("fetch_production") /\ Len(requests) = 2 /\ HasRows

\* Indices of the fuelmix rows at the fuelmix object's own LastUpdated.
AtLastUpdated ==
    IF Has(Mix, "LastUpdated")
    THEN {i \in 1..Len(Mix.Rows) : Mix.Rows[i].EffectiveTime = Mix.LastUpdated}
    ELSE {}

Producing == {i \in AtLastUpdated : Mix.Rows[i].FieldName # "FUEL_EWIC"}

\* Of the producing rows, the last one of each fuel code.
LastOfCode ==
    {i \in Producing :
        \A j \in Producing : Mix.Rows[j].FieldName = Mix.Rows[i].FieldName => j <= i}

RECURSIVE SumValue(_)
SumValue(I) ==
    IF I = {} THEN 0
    ELSE LET i == CHOOSE x \in I : TRUE
         IN  Mix.Rows[i].Value[1] + SumValue(I \ {i})

RECURSIVE SumProduction(_)
SumProduction(K) ==
    IF K = {} THEN 0
    ELSE LET k == CHOOSE x \in K : TRUE
         IN  Record.production[k] + SumProduction(K \ {k})

\* C2 as stated: the production values sum to total_generation times the sum
\* of Value over all the fuel-mix rows at LastUpdated other than FUEL_EWIC,
\* over 100 (both sides in hundredths of a MW).
C2_AsStated ==
    Returned("fetch_production") =>
        SumProduction(DOMAIN Record.production) =
            (IF Producing = {} THEN 0
             ELSE total_generation[1] * SumValue(Producing))

\* C2 amended: the production values sum to total_generation times the sum of
\* Value over the LAST row of each fuel code among the fuel-mix rows at the
\* fuel-mix response's LastUpdated other than FUEL_EWIC, over 100: a later
\* row of a code overwrites an earlier one.
C2_SumOfLastRows ==
    Returned("fetch_production") =>
        SumProduction(DOMAIN Record.production) =
            (IF Producing = {} THEN 0
             ELSE total_generation[1] * SumValue(LastOfCode))

\* Two fuels at LastUpdated: 40% coal and 40% renewables of 200 MW.
C2_Witness ==
    /\ Returned("fetch_production")
    /\ total_generation = JNum(200)
    /\ Cardinality(Producing) = 2
    /\ DOMAIN Record.production = {"coal", "wind"}
    /\ SumProduction(DOMAIN Record.production) = 16000

Unmapped(i) == Mix.Rows[i].FieldName \notin DOMAIN FUEL_MAP

\* C3 as stated: whenever the fuel-mix response contains a row whose fuel
\* code has no entry in FUEL_MAP, the call raises and returns no record.
C3_AsStated ==
    (FuelmixEnded /\ \E i \in 1..Len(Mix.Rows) : Unmapped(i)) =>
        pc = "raised" /\ result = <<>>

\* C3 amended: whenever the fuel-mix response contains, AT ITS LastUpdated, a
\* row whose fuel code has no entry in FUEL_MAP, the call raises and returns
\* no record; such a row is never dropped or assigned to 'unknown'.  (A row
\* at another EffectiveTime is filtered out before the lookup.)
C3_UnmappedAtLastUpdatedRaises ==
    (FuelmixEnded /\ \E i \in AtLastUpdated : Unmapped(i)) =>
        pc = "raised" /\ result = <<>>

\* An unmapped code at LastUpdated, with nothing else wrong, raised KeyError.
C3_Witness ==
    /\ FuelmixEnded
    /\ pc = "raised" /\ error = "KeyError" /\ result = <<>>
    /\ Has(Mix, "LastUpdated")
    /\ \E i \in AtLastUpdated : Unmapped(i)
    /\ total_generation # JNull
    /\ \A i \in 1..Len(Mix.Rows) : Mix.Rows[i].Value # JNull

\* C7: every value of the production mapping of a returned record is >= 0.
C7_NonNegativeProduction ==
    Returned("fetch_production") =>
        \A k \in DOMAIN Record.production : Record.production[k] >= 0

\* C9 as stated: every fuel-mix row that contributes to production has an
\* EffectiveTime equal to the returned record's datetime.
C9_AsStated ==
    Returned("fetch_production") =>
        \A n \in 1..Len(retained) :
            Mix.Rows[retained[n]].FieldName # "FUEL_EWIC" =>
                Normalized(Mix.Rows[retained[n]].EffectiveTime) = Record.datetime

\* C9 amended: the rows used for the breakdown are exactly the fuel-mix rows
\* at the LastUpdated of the FUEL-MIX response, and every production entry
\* comes from one of them; they are at the record's datetime (taken from the
\* generationactual LastUpdated) when the two responses declare the same
\* LastUpdated.
C9_RowsAtFuelmixLastUpdated ==
    Returned("fetch_production") =>
        /\ {retained[n] : n \in 1..Len(retained)} = AtLastUpdated
        /\ \A k \in DOMAIN Record.production :
               \E i \in AtLastUpdated : FUEL_MAP[Mix.Rows[i].FieldName] = k
        /\ (AtLastUpdated # {} /\ Normalized(Mix.LastUpdated) = Record.datetime) =>
               \A i \in Producing :
                   Normalized(Mix.Rows[i].EffectiveTime) = Record.datetime

\* The two responses declare different LastUpdated values and a production
\* entry was built from a row that is not at the record's datetime.
C9_Witness ==
    /\ Returned("fetch_production")
    /\ Producing # {}
    /\ DOMAIN Record.production # {}
    /\ Normalized(Mix.LastUpdated) # Record.datetime
    /\ \E i \in 1..Len(Mix.Rows) : i \notin AtLastUpdated

\* C10: the production keys are among coal, gas, unknown and wind, never
\* 'GB->IE'; every production value is that of the last non-FUEL_EWIC row of
\* its category at LastUpdated, so a FUEL_EWIC row changes none; storage is
\* empty.
C10_ImportsExcluded ==
    Returned("fetch_production") =>
        /\ DOMAIN Record.production \subseteq {"coal", "gas", "unknown", "wind"}
        /\ "GB->IE" \notin DOMAIN Record.production
        /\ DOMAIN Record.production =
               {FUEL_MAP[Mix.Rows[i].FieldName] : i \in Producing}
        /\ \A i \in LastOfCode :
               Record.production[FUEL_MAP[Mix.Rows[i].FieldName]] =
                   Mix.Rows[i].Value[1] * total_generation[1]
        /\ DOMAIN Record.storage = {}

\* A FUEL_EWIC row at LastUpdated, next to a row that did produce.
C10_Witness ==
    /\ Returned("fetch_production")
    /\ \E i \in AtLastUpdated : Mix.Rows[i].FieldName = "FUEL_EWIC"
    /\ DOMAIN Record.production = {"coal"}

\* ------------------------------------------------------ fetch_price claims
\* C4: a price record is returned only when the reference row is a
\* LATEST_MARKET_PRICE row and some marketdata row has exactly its
\* EffectiveTime; the price is the EurPrice of such a row and the datetime is
\* that EffectiveTime.  With no marketdata row at that EffectiveTime the call
\* raises and returns no record.
C4_PriceNeedsMatchingRow ==
    /\ Returned("fetch_price") =>
           /\ latest \in MarketPriceStatsRows
           /\ latest.FieldName = "LATEST_MARKET_PRICE"
           /\ \E i \in 1..Len(Mix.Rows) :
                  /\ Mix.Rows[i].EffectiveTime = latest.EffectiveTime
                  /\ Record.price = Mix.Rows[i].EurPrice
           /\ Record.datetime = Normalized(latest.EffectiveTime)
    /\ (/\ Ended("fetch_price") /\ Len(requests) = 2 /\ HasRows
        /\ \A i \in 1..Len(Mix.Rows) :
               Mix.Rows[i].EffectiveTime # latest.EffectiveTime) =>
           pc = "raised" /\ result = <<>>

\* The matching marketdata row is the second one and carries another price
\* than the first.
C4_Witness ==
    /\ Returned("fetch_price")
    /\ Len(Mix.Rows) = 2
    /\ Mix.Rows[1].EffectiveTime # latest.EffectiveTime
    /\ Mix.Rows[2].EffectiveTime = latest.EffectiveTime
    /\ Mix.Rows[1].EurPrice # Mix.Rows[2].EurPrice
    /\ Record.price = Mix.Rows[2].EurPrice

\* ------------------------------------------------------ claims on all three
\* The country code the region is chosen from.
RegionCode == IF op = "fetch_exchange" THEN country_code2 ELSE country_code1

\* C5: whatever the country code, a call issues its first request; every
\* request of fetch_production and fetch_price carries region 'ROI' exactly
\* when the code is 'IE' and 'All' otherwise, and fetch_exchange chooses the
\* same way from its second code alone.
C5_RegionFromCountryCode ==
    /\ pc # "idle" => Len(requests) >= 1
    /\ \A n \in 1..Len(requests) :
           /\ requests[n].region \in {"ROI", "All"}
           /\ requests[n].region = "ROI" <=> RegionCode = IE

\* fetch_exchange('IE', 'FR') asked for region 'All': the first code is
\* ignored and the unrecognized second one did not stop the request.
C5_Witness ==
    /\ op = "fetch_exchange"
    /\ country_code1 = IE /\ country_code2 = FR
    /\ Len(requests) = 1
    /\ requests[1].region = "All"

\* The GETs of each operation, in order.
Order(f) ==
    IF f = "fetch_production" THEN <<"generationactual", "fuelmix">>
    ELSE IF f = "fetch_price" THEN <<"MarketPriceStats", "marketdata">>
    ELSE IF f = "fetch_exchange" THEN <<"interconnection">>
    ELSE <<>>

C6_State ==
    /\ Len(requests) <= Len(Order(op))
    /\ \A n \in 1..Len(requests) : requests[n].area = Order(op)[n]
    /\ error # "" <=> pc = "raised"
    /\ pc = "raised" => result = <<>>
    /\ result # <<>> => pc = "returned" /\ Len(requests) = Len(Order(op))
    /\ (obj # NoObj /\ (obj.status # "ok" \/ ~Has(obj.json, "Rows"))) =>
           pc = "raised"

C6_Step ==
    /\ pc' = "raised" => requests' = requests
    /\ pc = "raised" => pc' = "idle"
    /\ Len(requests') > Len(requests) => error' = "" /\ result' = <<>>

\* C6: a failure at any step aborts the call: the step that fails issues no
\* request, nothing follows it but the caller's next call, no record is
\* returned, and the requests of a call are always a prefix of its fixed
\* order of GETs, each issued at most once.
C6_FailureAborts == [](C6_State) /\ [][C6_Step]_vars

\* fetch_production raised on its first response (no row at LastUpdated) and
\* the fuelmix request was never issued.
C6_Witness ==
    /\ op = "fetch_production"
    /\ pc = "raised" /\ error = "IndexError"
    /\ Len(requests) = 1
    /\ result = <<>>

====
